---- MODULE Spec2Model ----
(***************************************************************************)
(* Model of pridict.py: a Telegram bot that gates a generated prediction   *)
(* behind a channel-membership check and a per-user cooldown, polled by a  *)
(* daemon thread (run_bot) while the main thread serves Flask (run_flask). *)
(*                                                                         *)
(* Time is an integer clock of seconds (time.time()).  Every call to the   *)
(* Telegram client is an external call whose outcome (a value or a raised  *)
(* exception) is chosen nondeterministically.  Handlers run on the worker  *)
(* threads of the TeleBot instance, so the steps of two handlers           *)
(* interleave at every external call and every access to the globals.      *)
(***************************************************************************)
EXTENDS Integers, Sequences, FiniteSets, TLC

\* ---------------------------------------------------------------- constants
COOLDOWN_SECONDS == 120
PREDICTION_DELAY == 130
BACKOFF_SECONDS == 10
NumWorkers == 2

\* ------------------------------------------------------------------- bounds
MaxTime == 150
MaxEvents == 2
MaxCrashes == 3
TenthsPerSecond == 10

Users == {1, 2}
Workers == 1..NumWorkers
TickSteps == {30, 90}

Kinds == {"start", "check_membership", "get_prediction"}
MemberStatuses == {"member", "administrator", "creator"}
ChatStatuses == MemberStatuses \cup {"restricted", "left", "kicked"}
QueryOutcomes == ChatStatuses \cup {"error"}
CallOutcomes == {"ok", "raise"}

VARIABLES
    now,               \* time.time()
    cooldowns,         \* the global dict user_id -> expiry instant
    first_time_users,  \* the global set of users that received the sticker
    handlers,          \* per worker thread: the handler it is executing
    events,            \* number of events dispatched so far
    mainpc,            \* position of the main thread
    loop,              \* position of the run_bot thread
    bot_lock,          \* TRUE while bot_lock is held
    sleepUntil,        \* when the time.sleep(10) after the last crash returns; 0: none
    lastEnd,           \* how the previous infinity_polling call ended
    crashes,           \* consecutive exceptions caught by run_bot
    issues,            \* history: per user, the instants at which it was armed
    token,             \* TRUE when BOT_TOKEN is set in the environment
    probe,             \* the HTTP request the Flask server is handling, and its response
    fmt                \* the "Please wait" text: remaining time and the mins, secs shown

vars == <<now, cooldowns, first_time_users, handlers, events, mainpc, loop,
          bot_lock, sleepUntil, lastEnd, crashes, issues, token, probe, fmt>>

procVars == <<mainpc, loop, bot_lock, sleepUntil, lastEnd, crashes>>
dataVars == <<cooldowns, first_time_users, issues>>
otherVars == <<token, probe, fmt>>

\* ------------------------------------------------------------------ helpers
Idle ==
    [pc |-> "idle", kind |-> "none", user |-> 0, status |-> "none",
     member |-> "unk", resp |-> "none", wait |-> 0, err |-> FALSE]

NoProbe ==
    [state |-> "none", route |-> "none", status |-> "none", count |-> 0, active |-> 0]
NoFmt == [rem |-> 0, mins |-> 0, secs |-> 0]

Alive == mainpc \notin {"exited", "shutdown", "refused"}

\* is_member: get_chat_member returned `outcome` (a status, or "error")
IsMemberFailOpen(outcome) ==
    outcome = "error" \/ outcome \in MemberStatuses

IsMember(outcome) ==
    IF outcome = "error" THEN FALSE ELSE outcome \in MemberStatuses

\* line 145: cooldowns[user_id] - time.time()
Remaining(u) == cooldowns[u] - now

ThrottledNever(u) == FALSE

\* line 145: user_id in cooldowns and remaining > 0
Throttled(u) == u \in DOMAIN cooldowns /\ Remaining(u) > 0

ExpiryWrongConstant(t) == t + PREDICTION_DELAY

\* line 204: time.time() + COOLDOWN_SECONDS
Expiry(t) == t + COOLDOWN_SECONDS

Set(h, rec) == handlers' = [handlers EXCEPT ![h] = rec]

\* ------------------------------------------------------------------ startup
InitWith(pc, tok) ==
    /\ now = 0
    /\ cooldowns = [u \in {} |-> 0]
    /\ first_time_users = {}
    /\ handlers = [h \in Workers |-> Idle]
    /\ events = 0
    /\ mainpc = pc
    /\ token = tok
    /\ probe = NoProbe
    /\ fmt = NoFmt
    /\ loop = "unstarted"
    /\ bot_lock = FALSE
    /\ sleepUntil = 0
    /\ lastEnd = "none"
    /\ crashes = 0
    /\ issues = [u \in Users |-> <<>>]

\* the state once line 55 has constructed the bot from a token that is set
Init == InitWith("boot", TRUE)

\* line 242: Thread(target=run_bot, daemon=True).start()
StartThread ==
    /\ mainpc = "boot"
    /\ mainpc' = "spawned"
    /\ loop' = "entering"
    /\ UNCHANGED <<now, handlers, events, bot_lock, sleepUntil, lastEnd, crashes>>
    /\ UNCHANGED dataVars
    /\ UNCHANGED otherVars

\* lines 12, 55: the module reads BOT_TOKEN with os.getenv and hands it to
\* telebot.TeleBot without looking at it.  With the variable unset the token
\* is None: the library either keeps it (the process goes on as with a token)
\* or its constructor raises and the import ends the process with a traceback.
Construct ==
    /\ mainpc = "init"
    /\ \E accepted \in BOOLEAN :
          mainpc' = IF token \/ accepted THEN "boot" ELSE "refused"
    /\ UNCHANGED <<now, handlers, events, loop, bot_lock, sleepUntil, lastEnd, crashes>>
    /\ UNCHANGED dataVars
    /\ UNCHANGED otherVars

\* lines 223-225, 244: run_flask; app.run only when the port is free
RunFlask ==
    /\ mainpc = "spawned"
    /\ \E inUse \in BOOLEAN :
          mainpc' = IF inUse THEN "returned" ELSE "serving"
    /\ UNCHANGED <<now, handlers, events, loop, bot_lock, sleepUntil, lastEnd, crashes>>
    /\ UNCHANGED dataVars
    /\ UNCHANGED otherVars

\* the process ends: its daemon thread and the worker threads die with it
Die(how) ==
    /\ mainpc' = how
    /\ loop' = "killed"
    /\ bot_lock' = FALSE
    /\ handlers' = [h \in Workers |-> Idle]
    /\ probe' = NoProbe
    /\ UNCHANGED <<now, events, sleepUntil, lastEnd, crashes>>
    /\ UNCHANGED dataVars
    /\ UNCHANGED <<token, fmt>>

\* line 244: run_flask returned, the main thread ends, only a daemon thread is left
MainExit ==
    /\ mainpc = "returned"
    /\ Die("exited")

\* an external shutdown signal
Shutdown ==
    /\ mainpc \in {"spawned", "serving", "returned"}
    /\ Die("shutdown")

\* lines 57, 232: bot_lock is taken in one place only, the with statement of
\* run_bot; no handler and no Flask route acquires it or any other mutex
LockOwner == IF bot_lock THEN "run_bot" ELSE "none"

\* ------------------------------------------------- the wait shown to the user
\* Clock readings are floats; here they are counted in fractions of a second,
\* TenthsPerSecond to the second.

\* round(remaining) in place of int(remaining)
IntRound(x) == (2 * x + TenthsPerSecond) \div (2 * TenthsPerSecond)

\* line 146: int(remaining) drops the fraction, towards zero
IntTrunc(x) ==
    IF x >= 0 THEN x \div TenthsPerSecond ELSE -((-x) \div TenthsPerSecond)

\* line 146: divmod(s, 60)
Divmod60(s) == [mins |-> s \div 60, secs |-> s % 60]

\* lines 145-146 for a request that arrives d fractions after the cooldown was
\* armed at line 204: remaining = expiry - time.time(), the branch is taken
\* when it is positive, and mins, secs are what the answer shows
FormatWait ==
    /\ \E d \in 0..(MaxTime * TenthsPerSecond) :
          LET remaining == COOLDOWN_SECONDS * TenthsPerSecond - d
              ms == Divmod60(IntTrunc(remaining))
          IN  /\ remaining > 0
              /\ fmt' = [rem |-> remaining, mins |-> ms.mins, secs |-> ms.secs]
    /\ UNCHANGED <<now, handlers, events, token, probe>>
    /\ UNCHANGED procVars
    /\ UNCHANGED dataVars

\* ------------------------------------------------------------- time passing
Tick ==
    /\ Alive
    /\ \E d \in TickSteps :
          /\ now + d <= MaxTime
          /\ now' = now + d
    /\ UNCHANGED <<handlers, events>>
    /\ UNCHANGED procVars
    /\ UNCHANGED dataVars
    /\ UNCHANGED otherVars

\* ----------------------------------------------------------- ingestion loop
LockLeftHeld == TRUE

\* line 232: leaving the with block, normally or by an exception, releases bot_lock
LockAfterWith == FALSE

SleepDoneEarly(t, until) == TRUE

\* line 239: time.sleep(10) returns once the interval has elapsed
SleepDone(t, until) == t >= until

\* lines 230-233: top of the while loop, acquire bot_lock, call infinity_polling
EnterPolling ==
    /\ loop = "entering"
    /\ bot_lock = FALSE
    /\ bot_lock' = TRUE
    /\ loop' = "polling"
    /\ UNCHANGED <<now, handlers, events, mainpc, sleepUntil, lastEnd, crashes>>
    /\ UNCHANGED dataVars
    /\ UNCHANGED otherVars

\* lines 232-236: infinity_polling returns; the loop goes round at once
PollReturn ==
    /\ loop = "polling"
    /\ bot_lock' = LockAfterWith
    /\ loop' = "entering"
    /\ lastEnd' = "returned"
    /\ sleepUntil' = 0
    /\ crashes' = 0
    /\ UNCHANGED <<now, handlers, events, mainpc>>
    /\ UNCHANGED dataVars
    /\ UNCHANGED otherVars

\* lines 237-239: infinity_polling raises; except Exception prints and sleeps
PollRaise ==
    /\ loop = "polling"
    /\ crashes < MaxCrashes
    /\ now + BACKOFF_SECONDS <= MaxTime
    /\ bot_lock' = LockAfterWith
    /\ loop' = "sleeping"
    /\ lastEnd' = "raised"
    /\ sleepUntil' = now + BACKOFF_SECONDS
    /\ crashes' = crashes + 1
    /\ UNCHANGED <<now, handlers, events, mainpc>>
    /\ UNCHANGED dataVars
    /\ UNCHANGED otherVars

\* line 239 -> line 230: the sleep is over, back to the top of the loop
Wake ==
    /\ loop = "sleeping"
    /\ SleepDone(now, sleepUntil)
    /\ loop' = "entering"
    /\ UNCHANGED <<now, handlers, events, mainpc, bot_lock, sleepUntil, lastEnd, crashes>>
    /\ UNCHANGED dataVars
    /\ UNCHANGED otherVars

\* ----------------------------------------------------------------- handlers
\* What an exception that escaped a handler would do: the worker pool hands it
\* to the polling thread, where it ends infinity_polling.
BoundaryPropagates(raised) ==
    IF raised /\ loop = "polling"
    THEN /\ loop' = "sleeping"
         /\ bot_lock' = FALSE
         /\ lastEnd' = "raised"
         /\ sleepUntil' = now + BACKOFF_SECONDS
         /\ UNCHANGED <<mainpc, crashes>>
    ELSE UNCHANGED procVars

\* lines 121, 133, 207: except Exception at the end of each handler; whether or
\* not the body raised, nothing reaches the polling thread
Boundary(raised) == UNCHANGED procVars

Entry(kind) ==
    CASE kind = "start" -> "sw_member"
      [] kind = "check_membership" -> "cm_member"
      [] kind = "get_prediction" -> "hp_member"

\* the polling thread hands a received event to a free worker thread
Dispatch(h) ==
    /\ loop = "polling"
    /\ events < MaxEvents
    /\ handlers[h].pc = "idle"
    /\ \A g \in Workers : g < h => handlers[g].pc # "idle"
    /\ \E kind \in Kinds, u \in Users :
          Set(h, [Idle EXCEPT !.pc = Entry(kind), !.kind = kind, !.user = u])
    /\ events' = events + 1
    /\ UNCHANGED now
    /\ UNCHANGED procVars
    /\ UNCHANGED dataVars
    /\ UNCHANGED otherVars

\* a step of handler h that ends it: `o` is the outcome of its external call,
\* `resp` the terminal response the call delivers when it succeeds
Finish(h, o, resp) ==
    LET r == handlers[h] IN
    Set(h, IF o = "ok"
           THEN [r EXCEPT !.pc = "done", !.status = "none", !.resp = resp]
           ELSE [r EXCEPT !.pc = "done", !.status = "none", !.err = TRUE])

AfterGateNoReturn(m) == "hp_cool"

\* lines 141-143: a non-member is answered and the handler returns
AfterGate(m) == IF m THEN "hp_cool" ELSE "hp_deny"

\* lines 84, 128, 141: is_member(user_id)
MemberCheck(h) ==
    LET r == handlers[h] IN
    /\ r.pc \in {"sw_member", "cm_member", "hp_member"}
    /\ \E o \in QueryOutcomes :
          LET m == IsMember(o) IN
          Set(h, [r EXCEPT !.status = o,
                           !.member = IF m THEN "yes" ELSE "no",
                           !.pc = CASE r.pc = "sw_member" -> "sw_send"
                                    [] r.pc = "cm_member" -> "cm_answer"
                                    [] r.pc = "hp_member" -> AfterGate(m)])
    /\ Boundary(FALSE)
    /\ UNCHANGED <<now, events>>
    /\ UNCHANGED dataVars
    /\ UNCHANGED otherVars

\* lines 93-98, 112-120: send_message of the welcome or the join-required text
SendWelcome(h) ==
    LET r == handlers[h] IN
    /\ r.pc = "sw_send"
    /\ \E o \in CallOutcomes :
          /\ Finish(h, o, IF r.member = "yes" THEN "welcome" ELSE "join_required")
          /\ Boundary(o = "raise")
    /\ UNCHANGED <<now, events>>
    /\ UNCHANGED dataVars
    /\ UNCHANGED otherVars

\* lines 128-132: answer_callback_query, then send_welcome for a member
CmAnswer(h) ==
    LET r == handlers[h] IN
    /\ r.pc = "cm_answer"
    /\ \E o \in CallOutcomes :
          /\ IF r.member = "yes" /\ o = "ok"
             THEN Set(h, [r EXCEPT !.pc = "sw_member", !.status = "none",
                                   !.member = "unk", !.resp = "verified"])
             ELSE Finish(h, o, "not_joined")
          /\ Boundary(o = "raise")
    /\ UNCHANGED <<now, events>>
    /\ UNCHANGED dataVars
    /\ UNCHANGED otherVars

\* lines 141-143: not a member: answer_callback_query, return
HpDeny(h) ==
    LET r == handlers[h] IN
    /\ r.pc = "hp_deny"
    /\ \E o \in CallOutcomes :
          /\ Finish(h, o, "denied")
          /\ Boundary(o = "raise")
    /\ UNCHANGED <<now, events>>
    /\ UNCHANGED dataVars
    /\ UNCHANGED otherVars

\* lines 145-146: the cooldown check
HpCool(h) ==
    LET r == handlers[h] IN
    /\ r.pc = "hp_cool"
    /\ Set(h, IF Throttled(r.user)
              THEN [r EXCEPT !.pc = "hp_throttle", !.status = "none",
                             !.wait = Remaining(r.user)]
              ELSE [r EXCEPT !.pc = "hp_edit", !.status = "none"])
    /\ Boundary(FALSE)
    /\ UNCHANGED <<now, events>>
    /\ UNCHANGED dataVars
    /\ UNCHANGED otherVars

\* lines 147-152: answer_callback_query "Please wait", return
HpThrottle(h) ==
    LET r == handlers[h] IN
    /\ r.pc = "hp_throttle"
    /\ \E o \in CallOutcomes :
          /\ Finish(h, o, "wait")
          /\ Boundary(o = "raise")
    /\ UNCHANGED <<now, events>>
    /\ UNCHANGED dataVars
    /\ UNCHANGED otherVars

\* lines 155-162: edit_message_reply_markup in its own try/except
HpEdit(h) ==
    LET r == handlers[h] IN
    /\ r.pc = "hp_edit"
    /\ \E o \in CallOutcomes : Set(h, [r EXCEPT !.pc = "hp_sticker"])
    /\ UNCHANGED <<now, events>>
    /\ UNCHANGED procVars
    /\ UNCHANGED dataVars
    /\ UNCHANGED otherVars

\* lines 165-170: send_sticker to a first-time user in its own try/except
HpSticker(h) ==
    LET r == handlers[h] IN
    /\ r.pc = "hp_sticker"
    /\ Set(h, [r EXCEPT !.pc = "hp_send"])
    /\ IF r.user \notin first_time_users
       THEN \E o \in CallOutcomes :
               first_time_users' = IF o = "ok"
                                   THEN first_time_users \cup {r.user}
                                   ELSE first_time_users
       ELSE UNCHANGED first_time_users
    /\ UNCHANGED <<now, events, cooldowns, issues>>
    /\ UNCHANGED procVars
    /\ UNCHANGED otherVars

\* the cooldown written before the message is sent, so also when sending fails
HpSendArmsFirst(h) ==
    LET r == handlers[h] IN
    /\ r.pc = "hp_send"
    /\ \E o \in CallOutcomes :
          /\ IF o = "ok"
             THEN Set(h, [r EXCEPT !.pc = "hp_arm", !.resp = "prediction"])
             ELSE Finish(h, o, "none")
          /\ Boundary(o = "raise")
    /\ cooldowns' = [x \in DOMAIN cooldowns \cup {r.user} |->
                        IF x = r.user THEN Expiry(now) ELSE cooldowns[x]]
    /\ UNCHANGED <<now, events, first_time_users, issues>>
    /\ UNCHANGED otherVars

\* lines 173-201: generate_prediction, send_message with the prediction
HpSend(h) ==
    LET r == handlers[h] IN
    /\ r.pc = "hp_send"
    /\ \E o \in CallOutcomes :
          /\ IF o = "ok"
             THEN Set(h, [r EXCEPT !.pc = "hp_arm", !.resp = "prediction"])
             ELSE Finish(h, o, "none")
          /\ Boundary(o = "raise")
    /\ UNCHANGED <<now, events>>
    /\ UNCHANGED dataVars
    /\ UNCHANGED otherVars

\* line 204: cooldowns[user_id] = time.time() + COOLDOWN_SECONDS
HpArm(h) ==
    LET r == handlers[h] IN
    /\ r.pc = "hp_arm"
    /\ cooldowns' = [x \in DOMAIN cooldowns \cup {r.user} |->
                        IF x = r.user THEN Expiry(now) ELSE cooldowns[x]]
    /\ issues' = [issues EXCEPT ![r.user] = Append(@, now)]
    /\ Set(h, [r EXCEPT !.pc = "hp_answer"])
    /\ Boundary(FALSE)
    /\ UNCHANGED <<now, events, first_time_users>>
    /\ UNCHANGED otherVars

\* line 205: answer_callback_query "Prediction generated!"
HpAnswer(h) ==
    LET r == handlers[h] IN
    /\ r.pc = "hp_answer"
    /\ \E o \in CallOutcomes :
          /\ Finish(h, o, r.resp)
          /\ Boundary(o = "raise")
    /\ UNCHANGED <<now, events>>
    /\ UNCHANGED dataVars
    /\ UNCHANGED otherVars

\* the handler function has returned; the worker thread is free again
Return(h) ==
    /\ handlers[h].pc = "done"
    /\ Set(h, Idle)
    /\ UNCHANGED <<now, events>>
    /\ UNCHANGED procVars
    /\ UNCHANGED dataVars
    /\ UNCHANGED otherVars

\* ------------------------------------------------------------- Flask routes
Routes == {"/", "/ping"}

RouteReadyUnderLock == mainpc = "serving" /\ ~bot_lock

\* lines 211-225: app.run serves the routes on its own threads; a route takes
\* no lock and waits for nothing
RouteReady == mainpc = "serving"

\* line 220: len(cooldowns)
UsersInCooldown == Cardinality(DOMAIN cooldowns)

\* the users whose stored expiry is still in the future
ActiveCooldowns == {u \in DOMAIN cooldowns : cooldowns[u] > now}

\* a health probe reaches the Flask server
ProbeArrive ==
    /\ mainpc = "serving"
    /\ probe.state # "pending"
    /\ \E rt \in Routes :
          probe' = [NoProbe EXCEPT !.state = "pending", !.route = rt]
    /\ UNCHANGED <<now, handlers, events, token, fmt>>
    /\ UNCHANGED procVars
    /\ UNCHANGED dataVars

\* lines 211-213: health_check
HealthCheck ==
    /\ probe.state = "pending"
    /\ probe.route = "/"
    /\ RouteReady
    /\ probe' = [probe EXCEPT !.state = "answered", !.status = "operational"]
    /\ UNCHANGED <<now, handlers, events, token, fmt>>
    /\ UNCHANGED procVars
    /\ UNCHANGED dataVars

\* /ping that drops the expired entries before it counts
PingEvicts ==
    /\ probe.state = "pending"
    /\ probe.route = "/ping"
    /\ RouteReady
    /\ cooldowns' = [u \in ActiveCooldowns |-> cooldowns[u]]
    /\ probe' = [probe EXCEPT !.state = "answered", !.status = "ok",
                              !.count = Cardinality(ActiveCooldowns),
                              !.active = Cardinality(ActiveCooldowns)]
    /\ UNCHANGED <<now, handlers, events, token, fmt>>
    /\ UNCHANGED procVars
    /\ UNCHANGED <<first_time_users, issues>>

\* lines 215-221: ping; `active` records, beside the reported count, how many
\* cooldowns were running at that instant
Ping ==
    /\ probe.state = "pending"
    /\ probe.route = "/ping"
    /\ RouteReady
    /\ probe' = [probe EXCEPT !.state = "answered", !.status = "ok",
                              !.count = UsersInCooldown,
                              !.active = Cardinality(ActiveCooldowns)]
    /\ UNCHANGED <<now, handlers, events, token, fmt>>
    /\ UNCHANGED procVars
    /\ UNCHANGED dataVars

\* ------------------------------------------------------------ specification
\* The handlers' view: the process has started, the polling thread receives
\* events and the worker threads handle them while time passes.
Next ==
    \/ StartThread
    \/ EnterPolling
    \/ Tick
    \/ \E h \in Workers : Dispatch(h)
    \/ \E h \in Workers : MemberCheck(h)
    \/ \E h \in Workers : SendWelcome(h)
    \/ \E h \in Workers : CmAnswer(h)
    \/ \E h \in Workers : HpDeny(h)
    \/ \E h \in Workers : HpCool(h)
    \/ \E h \in Workers : HpThrottle(h)
    \/ \E h \in Workers : HpEdit(h)
    \/ \E h \in Workers : HpSticker(h)
    \/ \E h \in Workers : HpSend(h)
    \/ \E h \in Workers : HpArm(h)
    \/ \E h \in Workers : HpAnswer(h)
    \/ \E h \in Workers : Return(h)

Spec == Init /\ [][Next]_vars

\* The threads' view: the main thread, the polling thread with its failures
\* and backoff, and the end of the process.
LoopNext ==
    \/ StartThread
    \/ RunFlask
    \/ MainExit
    \/ Shutdown
    \/ Tick
    \/ EnterPolling
    \/ PollReturn
    \/ PollRaise
    \/ Wake

LoopSpec == Init /\ [][LoopNext]_vars

\* The start of the process from the import of the module on, with the
\* BOT_TOKEN variable set or unset in the environment.
StartInit == \E tok \in BOOLEAN : InitWith("init", tok)

StartNext ==
    \/ Construct
    \/ StartThread
    \/ RunFlask
    \/ MainExit
    \/ Shutdown
    \/ Tick
    \/ EnterPolling
    \/ PollReturn
    \/ PollRaise
    \/ Wake

StartSpec == StartInit /\ [][StartNext]_vars

\* The computation of the wait of a throttled request on its own, over the
\* remaining times a throttled request can see.
FormatNext == FormatWait

FormatSpec == Init /\ [][FormatNext]_vars

\* one step of the handler running on worker h
HandlerStep(h) ==
    \/ MemberCheck(h)
    \/ SendWelcome(h)
    \/ CmAnswer(h)
    \/ HpDeny(h)
    \/ HpCool(h)
    \/ HpThrottle(h)
    \/ HpEdit(h)
    \/ HpSticker(h)
    \/ HpSend(h)
    \/ HpArm(h)
    \/ HpAnswer(h)
    \/ Return(h)

\* The handlers and the Flask routes: the polling thread receives, events are
\* handled one after the other on the first worker thread, probes arrive and
\* time passes.
MetricsNext ==
    \/ StartThread
    \/ RunFlask
    \/ EnterPolling
    \/ Tick
    \/ Dispatch(1)
    \/ \E h \in Workers : HandlerStep(h)
    \/ ProbeArrive
    \/ HealthCheck
    \/ Ping

MetricsSpec == Init /\ [][MetricsNext]_vars

\* the first event received by the process
FirstDispatch == Dispatch(1) /\ events = 0

\* one step of the handler of the first event; no cooldown is running yet, so
\* the "Please wait" answer is not among its steps
FirstEventStep(h) ==
    \/ MemberCheck(h)
    \/ SendWelcome(h)
    \/ CmAnswer(h)
    \/ HpDeny(h)
    \/ HpCool(h)
    \/ HpEdit(h)
    \/ HpSticker(h)
    \/ HpSend(h)
    \/ HpArm(h)
    \/ HpAnswer(h)
    \/ Return(h)

\* The threads and the Flask routes: the main thread, the polling thread with
\* its failures and backoff, the handler of one event, and probes.
ProbeNext ==
    \/ StartThread
    \/ RunFlask
    \/ MainExit
    \/ Shutdown
    \/ Tick
    \/ EnterPolling
    \/ PollReturn
    \/ PollRaise
    \/ Wake
    \/ FirstDispatch
    \/ \E h \in Workers : FirstEventStep(h)
    \/ ProbeArrive
    \/ HealthCheck
    \/ Ping

ProbeSpec == Init /\ [][ProbeNext]_vars

\* The polling thread is scheduled, and time advances.
FairLoopSpec ==
    /\ LoopSpec
    /\ WF_vars(Tick)
    /\ WF_vars(Wake)
    /\ WF_vars(EnterPolling)

\* ------------------------------------------------------------------- claims
Last(q) == q[Len(q)]
Max(a, b) == IF a >= b THEN a ELSE b
IsPrediction(r) == r.kind = "get_prediction"
IngestionRunning == loop \in {"entering", "polling", "sleeping"}
FlaskServing == mainpc = "serving"

\* C1: any two successful prediction issuances for one user (prediction sent
\* and cooldown armed) are at least COOLDOWN_SECONDS apart, also when two
\* get_prediction handlers for that user overlap.
C1_IssuancesApart ==
    \A u \in Users : \A i, j \in 1..Len(issues[u]) :
        i < j => issues[u][j] - issues[u][i] >= COOLDOWN_SECONDS

\* C2: a get_prediction handler whose membership check returned false never
\* reaches the cooldown check, sends no prediction, and none of its steps
\* changes the cooldown map.
C2_Denied(r) == IsPrediction(r) /\ r.member = "no"
C2_NotReached(r) == r.pc \in {"hp_deny", "done"} /\ r.resp # "prediction"
C2_DeniedLeavesCooldowns ==
    [][\A h \in Workers :
          /\ C2_Denied(handlers[h]) => C2_NotReached(handlers[h])
          /\ C2_Denied(handlers'[h]) => C2_NotReached(handlers'[h])
          /\ C2_Denied(handlers[h]) /\ handlers'[h] # handlers[h]
                => cooldowns' = cooldowns /\ issues' = issues]_vars

C2_Witness ==
    \E h \in Workers :
        /\ C2_Denied(handlers[h])
        /\ handlers[h].pc = "done"
        /\ handlers[h].resp = "denied"
        /\ handlers[h].user \in DOMAIN cooldowns
        /\ cooldowns[handlers[h].user] > now

\* C3: an authorized user whose stored expiry is still in the future at the
\* cooldown check is throttled: the handler goes on to answer "please wait"
\* and ends, it sends no prediction, and no step of it changes cooldowns.
C3_ThrottledKeepsExpiry ==
    [][\A h \in Workers :
          LET r == handlers[h]
              q == handlers'[h] IN
          /\ ( /\ r.pc = "hp_cool"
               /\ r.user \in DOMAIN cooldowns
               /\ cooldowns[r.user] - now > 0
               /\ q # r )
                => q.pc = "hp_throttle" /\ cooldowns' = cooldowns
          /\ (r.pc = "hp_throttle" /\ q # r)
                => /\ q.pc = "done"
                   /\ q.resp # "prediction"
                   /\ cooldowns' = cooldowns
                   /\ issues' = issues]_vars

C3_Witness ==
    \E h \in Workers :
        /\ IsPrediction(handlers[h])
        /\ handlers[h].pc = "done"
        /\ handlers[h].resp = "wait"
        /\ handlers[h].wait = 90
        /\ cooldowns[handlers[h].user] = COOLDOWN_SECONDS
        /\ now = 30

C5_FailsClosed ==
    \A h \in Workers :
        LET r == handlers[h] IN
        r.status # "none" =>
            /\ r.member \in {"yes", "no"}
            /\ r.member = "yes" <=> r.status \in {"member", "administrator", "creator"}
            /\ r.status = "error" => r.member = "no"
            /\ ~r.err
            /\ r.pc \in {"sw_send", "cm_answer", "hp_cool", "hp_deny"}

C5_Witness ==
    \E h \in Workers :
        /\ handlers[h].status = "error"
        /\ handlers[h].member = "no"
        /\ handlers[h].pc = "hp_deny"

\* C6: every interaction ends with a terminal response delivered to the user:
\* a result, a denial reason, or the generic retry notice.
C6_AlwaysAnswered ==
    \A h \in Workers :
        handlers[h].pc = "done" => handlers[h].resp # "none"

\* C7: whenever the polling thread is outside the receive call (sleeping after
\* a crash, or at the top of the loop) it eventually is inside it again, with
\* bot_lock free for it to take, unless the process has ended.
C7_LoopReenters ==
    (loop \in {"entering", "sleeping"}) ~> (loop = "polling" \/ ~Alive)

C7_Witness ==
    /\ crashes = 3
    /\ loop = "polling"
    /\ bot_lock
    /\ Alive

\* C8 as stated: every re-entry into the receive call after the previous one
\* ended is preceded by a full backoff sleep.
C8_AlwaysBackoff ==
    loop = "polling" /\ lastEnd # "none"
        => sleepUntil > 0 /\ now >= sleepUntil

\* C8 amended: every re-entry into the receive call after the previous one
\* ended by raising an exception is preceded by a full backoff sleep of 10
\* time units; after a normal return the loop re-enters at once.
C8_BackoffAfterCrash ==
    loop = "polling" /\ lastEnd = "raised"
        => sleepUntil > 0 /\ now >= sleepUntil

C8_Witness ==
    /\ loop = "polling"
    /\ lastEnd = "raised"
    /\ crashes = 2
    /\ now >= sleepUntil

\* C9: a step in which a handler's body raises ends that handler at its own
\* except clause and changes nothing of the polling thread, which goes on
\* receiving.
C9_HandlerErrorContained ==
    [][\A h \in Workers :
          ~handlers[h].err /\ handlers'[h].err
             => /\ handlers'[h].pc = "done"
                /\ UNCHANGED procVars]_vars

C9_Witness ==
    \E h \in Workers :
        /\ handlers[h].pc = "done"
        /\ handlers[h].err
        /\ loop = "polling"
        /\ events < MaxEvents
        /\ ENABLED (\E g \in Workers : Dispatch(g))

\* C10: once started and until a shutdown signal, the ingestion loop and the
\* liveness responder are both running.
C10_BothRunning ==
    mainpc \notin {"boot", "spawned", "shutdown"}
        => IngestionRunning /\ FlaskServing

\* C11: a pending probe can be answered at once in every state of the polling
\* thread and of the handlers (it takes no lock and waits for nothing), its
\* answer carries the fixed status, and a handler that is under way can always
\* take its next step whatever the probe is doing.
C11_ProbeNeverWaits ==
    /\ probe.state = "pending" /\ mainpc = "serving"
          => ENABLED (HealthCheck \/ Ping)
    /\ probe.state = "answered"
          => probe.status = (IF probe.route = "/" THEN "operational" ELSE "ok")
    /\ \A h \in Workers :
          handlers[h].pc # "idle" => ENABLED HandlerStep(h)

C11_Witness ==
    /\ probe.state = "pending"
    /\ loop = "sleeping"
    /\ now < sleepUntil
    /\ \E h \in Workers : handlers[h].pc = "hp_send"
    /\ ENABLED (HealthCheck \/ Ping)

\* C12: the users_in_cooldown value of an answered /ping equals the number of
\* users whose stored expiry was still in the future when the probe was
\* answered; expired cooldowns are not counted.
C12_CountsOnlyActive ==
    probe.state = "answered" /\ probe.route = "/ping"
        => probe.count = probe.active

\* C14: with BOT_TOKEN absent the process never gets past its start: it is
\* either still starting or has exited with a non-zero code, the polling
\* thread was never started and Flask never serves.
C14_RefusesWithoutToken ==
    ~token => /\ mainpc \in {"init", "refused"}
              /\ loop = "unstarted"
              /\ ~FlaskServing

\* a handler execution is in progress on worker h
InProgress(h) == handlers[h].pc \notin {"idle", "done"}

\* C15: events are handled one at a time: at no moment are two handler
\* executions in progress.
C15_OneAtATime ==
    Cardinality({h \in Workers : InProgress(h)}) <= 1

\* worker h is about to read (line 145) or write (line 204) the cooldown map
MapAccess(h) == handlers[h].pc \in {"hp_cool", "hp_arm"}

\* C16: an arm changes the map in one step from the state before to the
\* state with the one new expiry, and every step of a handler that reads or
\* writes the map is taken while that handler holds the mutex.
C16_MapUnderMutex ==
    [][/\ cooldowns' # cooldowns =>
              \E u \in Users :
                 cooldowns' = [x \in DOMAIN cooldowns \cup {u} |->
                                  IF x = u THEN Expiry(now) ELSE cooldowns[x]]
       /\ \A h \in Workers :
              MapAccess(h) /\ handlers'[h] # handlers[h]
                  => LockOwner = "handler"]_vars

\* C17: in a get_prediction interaction past both checks, the button removal
\* and the sticker step always lead on to the send whatever their outcome; the
\* send either returns and leads to the arm, or raises, ends the handler and
\* leaves the cooldown map unchanged; the arm stores now + COOLDOWN_SECONDS
\* for the user; the final answer ends the handler whatever its outcome and
\* leaves the map as armed.
C17_ArmedIffSent ==
    [][\A h \in Workers :
          LET r == handlers[h]
              q == handlers'[h]
          IN  q # r =>
                /\ r.pc = "hp_edit" => q.pc = "hp_sticker"
                /\ r.pc = "hp_sticker" => q.pc = "hp_send"
                /\ r.pc = "hp_send" =>
                      \/ q.pc = "hp_arm" /\ q.resp = "prediction"
                            /\ cooldowns' = cooldowns
                      \/ q.pc = "done" /\ q.err /\ q.resp = "none"
                            /\ cooldowns' = cooldowns
                /\ r.pc = "hp_arm" =>
                      /\ q.pc = "hp_answer"
                      /\ r.user \in DOMAIN cooldowns'
                      /\ cooldowns'[r.user] = now + COOLDOWN_SECONDS
                /\ r.pc = "hp_answer" =>
                      /\ q.pc = "done" /\ q.resp = "prediction"
                      /\ cooldowns' = cooldowns
                /\ q.pc = "hp_arm" => r.pc = "hp_send"]_vars

\* a prediction was sent and armed although the sticker could not be sent,
\* and the final answer failed afterwards
C17_Witness ==
    \E h \in Workers :
       LET r == handlers[h] IN
       /\ r.pc = "done" /\ r.err /\ r.resp = "prediction"
       /\ r.user \notin first_time_users
       /\ r.user \in DOMAIN cooldowns
       /\ cooldowns[r.user] = now + COOLDOWN_SECONDS

\* the map after arming user u at the present time
Armed(u) ==
    [x \in DOMAIN cooldowns \cup {u} |->
        IF x = u THEN now + COOLDOWN_SECONDS ELSE cooldowns[x]]

\* C18: the cooldown map changes only in the arm step of a get_prediction
\* handler whose prediction was sent, and then to the map with now +
\* COOLDOWN_SECONDS stored for that handler's user and nothing else changed;
\* every arm step records exactly one issuance; any other step (start,
\* check_membership, denied or throttled interactions, the Flask routes, time)
\* leaves the map as it is; no key is ever removed and no stored expiry
\* ever decreases.
C18_OnlyIssuingPathWrites ==
    [][/\ cooldowns' # cooldowns \/ issues' # issues =>
              \E h \in Workers :
                 LET r == handlers[h] IN
                 /\ r.pc = "hp_arm" /\ handlers'[h].pc = "hp_answer"
                 /\ r.kind = "get_prediction" /\ r.resp = "prediction"
                 /\ r.member = "yes"
                 /\ cooldowns' = Armed(r.user)
                 /\ issues' = [issues EXCEPT ![r.user] = Append(@, now)]
       /\ \A h \in Workers :
              handlers[h].pc = "hp_arm" /\ handlers'[h] # handlers[h] =>
                 /\ cooldowns' = Armed(handlers[h].user)
                 /\ Len(issues'[handlers[h].user]) =
                        Len(issues[handlers[h].user]) + 1
       /\ DOMAIN cooldowns \subseteq DOMAIN cooldowns'
       /\ \A u \in DOMAIN cooldowns : cooldowns'[u] >= cooldowns[u]]_vars

\* a user's expired cooldown was overwritten by a second issuance, and a
\* /ping was answered since, with the map holding that later expiry
C18_Witness ==
    \E u \in Users :
       /\ Len(issues[u]) = 2
       /\ issues[u][2] > issues[u][1]
       /\ cooldowns[u] = issues[u][2] + COOLDOWN_SECONDS
       /\ probe.state = "answered" /\ probe.route = "/ping"
       /\ probe.count = 1

\* C19: the wait shown, mins*60 + secs, is the remaining time with its
\* fraction dropped: the largest whole number of seconds not above it; secs
\* is in 0..59 and the total is in 0..COOLDOWN_SECONDS; a remaining time of
\* 90 s shows as 1m 30s.
C19_WaitIsFloor ==
    fmt.rem > 0 =>
        LET total == fmt.mins * 60 + fmt.secs IN
        /\ total * TenthsPerSecond <= fmt.rem
        /\ fmt.rem < (total + 1) * TenthsPerSecond
        /\ fmt.mins >= 0
        /\ 0 <= fmt.secs /\ fmt.secs < 60
        /\ 0 <= total /\ total <= COOLDOWN_SECONDS
        /\ fmt.rem = 90 * TenthsPerSecond => fmt.mins = 1 /\ fmt.secs = 30

\* a request a little more than 29 s after the issuance: the fraction of the
\* remaining 90 s and a bit is dropped and the answer shows 1m 30s
C19_Witness ==
    /\ fmt.rem > 90 * TenthsPerSecond
    /\ fmt.rem < 91 * TenthsPerSecond
    /\ 2 * (fmt.rem - 90 * TenthsPerSecond) >= TenthsPerSecond
    /\ fmt.mins = 1
    /\ fmt.secs = 30
====
